---- MODULE Spec2Model ----
(***************************************************************************)
(* Configuration resolution of the SPTP client                             *)
(* (ptp/sptp/client/config.go): DefaultConfig, Config.Validate,            *)
(* MeasurementConfig.Validate, ReadConfig, addrToIPstr and PrepareConfig.  *)
(*                                                                         *)
(* PrepareConfig is a sequential pipeline; pc is its position:             *)
(*   "start" -> "servers" -> "overrides" -> "validate" -> "done"           *)
(* and a failed ReadConfig goes from "start" to "done" directly.  The      *)
(* arguments, the file behind cfgPath and the name resolver's answers are  *)
(* fixed by Init; the caller calls PrepareConfig twice with them.          *)
(***************************************************************************)
EXTENDS Integers, Sequences, FiniteSets, TLC

(***************************************************************************)
(* Bounds of the model.                                                    *)
(***************************************************************************)
\* longest list of CLI targets
MaxTargets == 2
\* most entries of the servers mapping of a file
MaxFileServers == 2
\* most keys present in a file
MaxFileFields == 1

(***************************************************************************)
(* time.Duration is an int64 count of nanoseconds.  A duration d is kept   *)
(* as [s, ns] with d = s * NsPerSecond + ns and 0 <= ns < NsPerSecond, so  *)
(* that 60 s and 1 ns are both exact.                                      *)
(***************************************************************************)
NsPerSecond == 1000000000
NsPerMillisecond == 1000000

Duration(sec, nsec) == [s |-> sec, ns |-> nsec]
Seconds(n) == Duration(n, 0)
Milliseconds(n) == Duration(n \div 1000, (n % 1000) * NsPerMillisecond)
Nanoseconds(n) == IF n >= 0 THEN Duration(0, n) ELSE Duration(-1, NsPerSecond + n)
DurZero == Duration(0, 0)
\* a < b, a <= b on durations
DurLT(a, b) == a.s < b.s \/ (a.s = b.s /\ a.ns < b.ns)
DurLE(a, b) == a = b \/ DurLT(a, b)

(***************************************************************************)
(* Constants of the package that config.go uses and another file defines.  *)
(* The zero value of a Go string is "", and the defaults leave             *)
(* PathDelayFilter unset: FilterNone is the unset filter.                  *)
(***************************************************************************)
HWTIMESTAMP == "HWTIMESTAMP"
SWTIMESTAMP == "SWTIMESTAMP"
FilterNone == ""
FilterMean == "mean"
FilterMedian == "median"

(***************************************************************************)
(* Values.                                                                 *)
(***************************************************************************)
\* a nil error; an error is the chain of its messages, outermost first
NoErr == <<>>
Wrap(msg, err) == <<msg>> \o err
\* a nil *Config
Nil == [nil |-> TRUE]
\* a nil or empty map[string]int
EmptyMap == [k \in {} |-> 0]
\* m[k] = v
Put(m, k, v) == [x \in DOMAIN m \cup {k} |-> IF x = k THEN v ELSE m[x]]

\* every order in which the elements of S can be visited
Orders(S) ==
  {o \in [1..Cardinality(S) -> S] : \A a, b \in 1..Cardinality(S) : o[a] = o[b] => a = b}

MeasurementKeys ==
  {"PathDelayFilterLength", "PathDelayFilter",
   "PathDelayDiscardFilterEnabled", "PathDelayDiscardBelow"}

VARIABLES
  cfgPath, targets, iface, monitoringPort, interval, dscp, \* PrepareConfig's arguments
  file,       \* the file behind cfgPath: [status, doc]
  dns,        \* the resolver's answer for each identifier: [err, names]
  pc,         \* position in PrepareConfig
  cfg,        \* the local cfg of PrepareConfig
  loaded,     \* cfg as it was after the defaults and the file
  ret,        \* the returned pair [cfg, err]
  warnings,   \* names passed to warn, in order
  lookups,    \* addresses passed to net.LookupHost, in order
  reads,      \* number of os.ReadFile calls
  validated,  \* number of cfg.Validate calls
  call,       \* 1 or 2: which call of PrepareConfig is running
  prev        \* what the first call returned

args == <<cfgPath, targets, iface, monitoringPort, interval, dscp>>
env == <<file, dns>>
vars == <<args, env, pc, cfg, loaded, ret, warnings, lookups, reads, validated, call, prev>>

NoRet == [cfg |-> Nil, err |-> NoErr]

(***************************************************************************)
(* DefaultConfig                                                           *)
(***************************************************************************)
DefaultConfig ==
  [Iface |-> "",
   Timestamping |-> HWTIMESTAMP,
   MonitoringPort |-> 0,
   Interval |-> Seconds(1),
   ExchangeTimeout |-> Milliseconds(100),
   DSCP |-> 0,
   FirstStepThreshold |-> DurZero,
   Servers |-> EmptyMap,
   Measurement |-> [PathDelayFilterLength |-> 0,
                    PathDelayFilter |-> "",
                    PathDelayDiscardFilterEnabled |-> FALSE,
                    PathDelayDiscardBelow |-> DurZero],
   MetricsAggregationWindow |-> Seconds(60),
   AttemptsTXTS |-> 10,
   TimeoutTXTS |-> Milliseconds(50),
   FreeRunning |-> FALSE]

(***************************************************************************)
(* MeasurementConfig.Validate and Config.Validate                          *)
(***************************************************************************)
\* mutant: the filter kind is checked before the filter length
MeasurementValidateKindFirst(m) ==
  IF m.PathDelayFilter # FilterNone /\ m.PathDelayFilter # FilterMean
     /\ m.PathDelayFilter # FilterMedian
  THEN <<"path_delay_filter must be either \"\", \"mean\" or \"median\"">>
  ELSE IF m.PathDelayFilterLength < 0
  THEN <<"path_delay_filter_length must be 0 or positive">>
  ELSE NoErr

\* mutant: an unset filter kind is rejected
MeasurementValidateRejectsUnset(m) ==
  IF m.PathDelayFilterLength < 0
  THEN <<"path_delay_filter_length must be 0 or positive">>
  ELSE IF m.PathDelayFilter # FilterMean /\ m.PathDelayFilter # FilterMedian
  THEN <<"path_delay_filter must be either \"\", \"mean\" or \"median\"">>
  ELSE NoErr

MeasurementValidate(m) ==
  IF m.PathDelayFilterLength < 0
  THEN <<"path_delay_filter_length must be 0 or positive">>
  ELSE IF m.PathDelayFilter # FilterNone /\ m.PathDelayFilter # FilterMean
          /\ m.PathDelayFilter # FilterMedian
  THEN <<"path_delay_filter must be either \"\", \"mean\" or \"median\"">>
  ELSE NoErr

\* mutant: c.ExchangeTimeout > c.Interval for >=
ExchangeTimeoutOutOfRangeInclusive(c) ==
  DurLE(c.ExchangeTimeout, DurZero) \/ DurLT(c.Interval, c.ExchangeTimeout)

\* c.ExchangeTimeout <= 0 || c.ExchangeTimeout >= c.Interval
ExchangeTimeoutOutOfRange(c) ==
  DurLE(c.ExchangeTimeout, DurZero) \/ DurLE(c.Interval, c.ExchangeTimeout)

Validate(c) ==
  IF DurLE(c.Interval, DurZero)
  THEN <<"interval must be greater than zero">>
  ELSE IF c.AttemptsTXTS <= 0
  THEN <<"attemptstxts must be greater than zero">>
  ELSE IF DurLE(c.TimeoutTXTS, DurZero)
  THEN <<"timeouttxts must be greater than zero">>
  ELSE IF DurLE(c.MetricsAggregationWindow, DurZero)
  THEN <<"metricsaggregationwindow must be greater than zero">>
  ELSE IF c.MonitoringPort < 0
  THEN <<"monitoringport must be 0 or positive">>
  ELSE IF c.DSCP < 0
  THEN <<"dscp must be 0 or positive">>
  ELSE IF ExchangeTimeoutOutOfRange(c)
  THEN <<"exchangetimeout must be greater than zero but less than interval">>
  ELSE IF Cardinality(DOMAIN c.Servers) = 0
  THEN <<"at least one server must be specified">>
  ELSE IF c.Timestamping # HWTIMESTAMP /\ c.Timestamping # SWTIMESTAMP
  THEN <<"only \"HWTIMESTAMP\" and \"SWTIMESTAMP\" timestamping is supported">>
  ELSE IF c.Iface = ""
  THEN <<"iface must be specified">>
  ELSE IF MeasurementValidate(c.Measurement) # NoErr
  THEN Wrap("invalid measurement config", MeasurementValidate(c.Measurement))
  ELSE NoErr

(***************************************************************************)
(* ReadConfig                                                              *)
(***************************************************************************)
\* yaml.Unmarshal(cData, &c): the keys present in the document replace the
\* fields of c, the nested measurement keys those of c.Measurement
Unmarshal(doc, c) ==
  [f \in DOMAIN c |->
     IF f = "Measurement"
     THEN [g \in DOMAIN c.Measurement |->
             IF g \in DOMAIN doc THEN doc[g] ELSE c.Measurement[g]]
     ELSE IF f \in DOMAIN doc THEN doc[f] ELSE c[f]]

\* mutant: a file that does not parse yields the defaults
ReadConfigIgnoresParseError(path) ==
  IF file.status = "unreadable"
  THEN [cfg |-> Nil, err |-> <<"open " \o path \o ": no such file or directory">>]
  ELSE IF file.status = "unparsable"
  THEN [cfg |-> DefaultConfig, err |-> NoErr]
  ELSE [cfg |-> Unmarshal(file.doc, DefaultConfig), err |-> NoErr]

ReadConfig(path) ==
  IF file.status = "unreadable"
  THEN [cfg |-> Nil, err |-> <<"open " \o path \o ": no such file or directory">>]
  ELSE IF file.status = "unparsable"
  THEN [cfg |-> Nil, err |-> <<"yaml: unmarshal errors">>]
  ELSE [cfg |-> Unmarshal(file.doc, DefaultConfig), err |-> NoErr]

(***************************************************************************)
(* addrToIPstr: the address used for an identifier, and the lookups made.  *)
(***************************************************************************)
IPLiterals == {"192.0.2.1", "192.0.2.2"}
\* net.ParseIP(address) == nil
ParseIPIsNil(address) == address \notin IPLiterals

\* mutant: the lookup is made for a literal address too
addrToIPstrAlwaysLooksUp(address) ==
  [address |-> IF dns[address].err = NoErr /\ Len(dns[address].names) > 0
               THEN dns[address].names[1]
               ELSE address,
   looked |-> <<address>>]

addrToIPstr(address) ==
  IF ParseIPIsNil(address)
  THEN [address |-> IF dns[address].err = NoErr /\ Len(dns[address].names) > 0
                    THEN dns[address].names[1]
                    ELSE address,
        looked |-> <<address>>]
  ELSE [address |-> address, looked |-> <<>>]

(***************************************************************************)
(* PrepareConfig                                                           *)
(***************************************************************************)
\* cfg := DefaultConfig(); if cfgPath != "" { cfg, err = ReadConfig(cfgPath) ... }
ReadStage ==
  /\ pc = "start"
  /\ IF cfgPath = ""
     THEN /\ cfg' = DefaultConfig
          /\ loaded' = DefaultConfig
          /\ pc' = "servers"
          /\ UNCHANGED <<ret, reads>>
     ELSE LET r == ReadConfig(cfgPath) IN
          /\ reads' = reads + 1
          /\ cfg' = r.cfg
          /\ loaded' = r.cfg
          /\ IF r.err # NoErr
             THEN /\ ret' = [cfg |-> Nil,
                             err |-> Wrap("reading config from \"" \o cfgPath \o "\"", r.err)]
                  /\ pc' = "done"
             ELSE /\ pc' = "servers"
                  /\ UNCHANGED ret
  /\ UNCHANGED <<args, env, warnings, lookups, validated, call, prev>>

\* for i, t := range targets { address := addrToIPstr(t); cfg.Servers[address] = i }
RECURSIVE RangeTargets(_, _, _)
RangeTargets(i, servers, looked) ==
  IF i > Len(targets)
  THEN [servers |-> servers, looked |-> looked]
  ELSE LET r == addrToIPstr(targets[i]) IN
       RangeTargets(i + 1, Put(servers, r.address, i - 1), looked \o r.looked)

\* mutant: the position in the visit is stored for the priority
RECURSIVE RangeServersStoresPosition(_, _, _, _)
RangeServersStoresPosition(o, n, newServers, looked) ==
  IF n > Len(o)
  THEN [servers |-> newServers, looked |-> looked]
  ELSE LET r == addrToIPstr(o[n]) IN
       RangeServersStoresPosition(o, n + 1, Put(newServers, r.address, n - 1),
                                  looked \o r.looked)

\* for t, i := range cfg.Servers { address := addrToIPstr(t); newServers[address] = i },
\* the keys visited in the order o
RECURSIVE RangeServers(_, _, _, _)
RangeServers(o, n, newServers, looked) ==
  IF n > Len(o)
  THEN [servers |-> newServers, looked |-> looked]
  ELSE LET r == addrToIPstr(o[n]) IN
       RangeServers(o, n + 1, Put(newServers, r.address, cfg.Servers[o[n]]),
                    looked \o r.looked)

\* mutant: cfg.Servers is not emptied before the targets are added
ServersFromTargetsKeepsLoaded ==
  /\ pc = "servers"
  /\ Len(targets) > 0
  /\ LET r == RangeTargets(1, cfg.Servers, <<>>) IN
     /\ cfg' = [cfg EXCEPT !.Servers = r.servers]
     /\ lookups' = lookups \o r.looked
  /\ warnings' = Append(warnings, "targets")
  /\ pc' = "overrides"
  /\ UNCHANGED <<args, env, loaded, ret, reads, validated, call, prev>>

\* if len(targets) > 0 { ... }
ServersFromTargets ==
  /\ pc = "servers"
  /\ Len(targets) > 0
  /\ LET r == RangeTargets(1, EmptyMap, <<>>) IN
     /\ cfg' = [cfg EXCEPT !.Servers = r.servers]
     /\ lookups' = lookups \o r.looked
  /\ warnings' = Append(warnings, "targets")
  /\ pc' = "overrides"
  /\ UNCHANGED <<args, env, loaded, ret, reads, validated, call, prev>>

\* } else { ... }: Go visits the entries of a map in an unspecified order
ServersFromConfig ==
  /\ pc = "servers"
  /\ Len(targets) = 0
  /\ \E o \in Orders(DOMAIN cfg.Servers) :
       LET r == RangeServers(o, 1, EmptyMap, <<>>) IN
       /\ cfg' = [cfg EXCEPT !.Servers = r.servers]
       /\ lookups' = lookups \o r.looked
  /\ pc' = "overrides"
  /\ UNCHANGED <<args, env, loaded, ret, warnings, reads, validated, call, prev>>

\* the conditions of the four CLI overrides
ifaceOverrides(c) == iface # "" /\ iface # c.Iface
monitoringPortOverrides(c) == monitoringPort # 0 /\ monitoringPort # c.MonitoringPort
intervalOverrides(c) == interval # DurZero /\ interval # c.Interval
\* mutant: a CLI value of zero overrides too
dscpOverridesOnZero(c) == dscp # c.DSCP
dscpOverrides(c) == dscp # 0 /\ dscp # c.DSCP

Overrides ==
  /\ pc = "overrides"
  /\ cfg' = [cfg EXCEPT
               !.Iface = IF ifaceOverrides(cfg) THEN iface ELSE @,
               !.MonitoringPort = IF monitoringPortOverrides(cfg) THEN monitoringPort ELSE @,
               !.Interval = IF intervalOverrides(cfg) THEN interval ELSE @,
               !.DSCP = IF dscpOverrides(cfg) THEN dscp ELSE @]
  /\ warnings' = warnings
                   \o (IF ifaceOverrides(cfg) THEN <<"iface">> ELSE <<>>)
                   \o (IF monitoringPortOverrides(cfg) THEN <<"monitoringPort">> ELSE <<>>)
                   \o (IF intervalOverrides(cfg) THEN <<"interval">> ELSE <<>>)
                   \o (IF dscpOverrides(cfg) THEN <<"dscp">> ELSE <<>>)
  /\ pc' = "validate"
  /\ UNCHANGED <<args, env, loaded, ret, lookups, reads, validated, call, prev>>

\* mutant: cfg is returned together with the validation error
ValidateStageReturnsBoth ==
  /\ pc = "validate"
  /\ validated' = validated + 1
  /\ ret' = IF Validate(cfg) # NoErr
            THEN [cfg |-> cfg, err |-> Wrap("validating config", Validate(cfg))]
            ELSE [cfg |-> cfg, err |-> NoErr]
  /\ pc' = "done"
  /\ UNCHANGED <<args, env, cfg, loaded, warnings, lookups, reads, call, prev>>

\* if err := cfg.Validate(); err != nil { return nil, ... }; return cfg, nil
ValidateStage ==
  /\ pc = "validate"
  /\ validated' = validated + 1
  /\ ret' = IF Validate(cfg) # NoErr
            THEN [cfg |-> Nil, err |-> Wrap("validating config", Validate(cfg))]
            ELSE [cfg |-> cfg, err |-> NoErr]
  /\ pc' = "done"
  /\ UNCHANGED <<args, env, cfg, loaded, warnings, lookups, reads, call, prev>>

\* the caller calls PrepareConfig again with the same arguments
NextCall ==
  /\ pc = "done"
  /\ call = 1
  /\ prev' = ret
  /\ call' = 2
  /\ pc' = "start"
  /\ cfg' = Nil
  /\ loaded' = Nil
  /\ ret' = NoRet
  /\ UNCHANGED <<args, env, warnings, lookups, reads, validated>>

(***************************************************************************)
(* The inputs Init draws from.                                             *)
(***************************************************************************)
Path == "/etc/sptp.yaml"
Idents == {"192.0.2.1", "host-a", "host-b"}
Priorities == {1, 2}

\* what net.LookupHost can answer for a name
LookupAnswers ==
  {[err |-> <<"no such host">>, names |-> <<>>],
   [err |-> NoErr, names |-> <<>>],
   [err |-> NoErr, names |-> <<"192.0.2.1">>],
   [err |-> NoErr, names |-> <<"192.0.2.2", "192.0.2.1">>]}

\* a resolver: an answer for every name (a literal address resolves to itself)
Resolvers ==
  {[x \in Idents |-> IF x \in IPLiterals THEN [err |-> NoErr, names |-> <<x>>] ELSE h[x]] :
     h \in [Idents \ IPLiterals -> LookupAnswers]}
NoResolver == [x \in Idents |-> IF x \in IPLiterals THEN [err |-> NoErr, names |-> <<x>>]
                                ELSE [err |-> <<"no such host">>, names |-> <<>>]]

TargetLists == UNION {[1..n -> Idents] : n \in 0..MaxTargets}

FileServerMaps ==
  UNION {[K -> Priorities] :
           K \in {K \in SUBSET Idents : Cardinality(K) \in 1..MaxFileServers}}

\* the values a file gives to a key, each different from the default
FileValues ==
  [Iface |-> {"eth0"},
   Timestamping |-> {SWTIMESTAMP, "PHCTIMESTAMP"},
   MonitoringPort |-> {-1, 8888},
   Interval |-> {DurZero, Milliseconds(50), Seconds(2)},
   ExchangeTimeout |-> {DurZero, Seconds(1), Milliseconds(1500)},
   DSCP |-> {-1, 35},
   FirstStepThreshold |-> {Seconds(1)},
   Servers |-> FileServerMaps,
   PathDelayFilterLength |-> {-1, 59},
   PathDelayFilter |-> {"median", "kalman"},
   PathDelayDiscardFilterEnabled |-> {TRUE},
   PathDelayDiscardBelow |-> {Milliseconds(1)},
   MetricsAggregationWindow |-> {DurZero, Seconds(10)},
   AttemptsTXTS |-> {0, 5},
   TimeoutTXTS |-> {DurZero, Milliseconds(10)},
   FreeRunning |-> {TRUE}]

FileKeys == DOMAIN FileValues

\* the documents whose keys are K
RECURSIVE DocsOver(_)
DocsOver(K) ==
  IF K = {} THEN {EmptyMap}
  ELSE LET k == CHOOSE x \in K : TRUE IN
       {d @@ (k :> v) : d \in DocsOver(K \ {k}), v \in FileValues[k]}

\* the documents with at most MaxFileFields keys, all of them among keys
FileDocs(keys) ==
  UNION {DocsOver(K) : K \in {K \in SUBSET keys : Cardinality(K) <= MaxFileFields}}

\* the file behind Path: missing or unreadable, not YAML, or a document
Files(keys) ==
  {[status |-> "unreadable", doc |-> EmptyMap], [status |-> "unparsable", doc |-> EmptyMap]}
    \cup {[status |-> "ok", doc |-> d] : d \in FileDocs(keys)}

CLIIfaces == {"", "eth0", "eth1"}
CLIPorts == {-1, 0, 8888}
CLIIntervals == {DurZero, Milliseconds(50), Seconds(2)}
CLIDSCPs == {-1, 0, 35}

InitCall ==
  /\ pc = "start"
  /\ cfg = Nil
  /\ loaded = Nil
  /\ ret = NoRet
  /\ warnings = <<>>
  /\ lookups = <<>>
  /\ reads = 0
  /\ validated = 0
  /\ call = 1
  /\ prev = NoRet

\* The servers (lines 154-168) and the four scalars (lines 169-187) are
\* resolved by separate statements: Init lets one side range over all its
\* inputs while the other takes one of a few values.
InitServers ==
  /\ cfgPath \in {"", Path}
  /\ file \in Files({"Servers"})
  /\ targets \in TargetLists
  /\ dns \in Resolvers
  /\ iface \in {"", "eth0"}
  /\ monitoringPort = 0
  /\ interval = DurZero
  /\ dscp = 0

InitScalars ==
  /\ cfgPath \in {"", Path}
  /\ file \in Files(FileKeys \ {"Servers"})
  /\ targets \in {<<>>, <<"192.0.2.1">>}
  /\ dns = NoResolver
  /\ iface \in CLIIfaces
  /\ monitoringPort \in CLIPorts
  /\ interval \in CLIIntervals
  /\ dscp \in CLIDSCPs

Init == InitCall /\ (InitServers \/ InitScalars)


Next ==
  \/ ReadStage
  \/ ServersFromTargets
  \/ ServersFromConfig
  \/ Overrides
  \/ ValidateStage
  \/ NextCall

Spec == Init /\ [][Next]_vars

(***************************************************************************)
(* The validation stage by itself: PrepareConfig has read a file that      *)
(* sets every key, no CLI value is given, and cfg is about to be           *)
(* validated.  Config.Validate is applied to every Config of               *)
(* ValidateConfigs.                                                        *)
(***************************************************************************)
\* the document that sets every key to its value in c
DocOf(c) == [k \in FileKeys |-> IF k \in MeasurementKeys THEN c.Measurement[k] ELSE c[k]]

ValidateConfigs ==
  {[Iface |-> i,
    Timestamping |-> ts,
    MonitoringPort |-> mp,
    Interval |-> iv,
    ExchangeTimeout |-> et,
    DSCP |-> d,
    FirstStepThreshold |-> DurZero,
    Servers |-> sv,
    Measurement |-> [PathDelayFilterLength |-> fl,
                     PathDelayFilter |-> fk,
                     PathDelayDiscardFilterEnabled |-> FALSE,
                     PathDelayDiscardBelow |-> DurZero],
    MetricsAggregationWindow |-> maw,
    AttemptsTXTS |-> at,
    TimeoutTXTS |-> tt,
    FreeRunning |-> FALSE] :
     i \in {"", "eth0"},
     ts \in {HWTIMESTAMP, SWTIMESTAMP, "PHCTIMESTAMP"},
     mp \in {-1, 0},
     iv \in {Nanoseconds(-1), DurZero, Nanoseconds(1), Nanoseconds(2), Seconds(1)},
     et \in {Nanoseconds(-1), DurZero, Nanoseconds(1), Nanoseconds(2), Milliseconds(100),
             Duration(0, NsPerSecond - 1), Seconds(1)},
     d \in {-1, 0},
     sv \in {EmptyMap, [k \in {"192.0.2.1"} |-> 0]},
     fl \in {-1, 0},
     fk \in {FilterNone, FilterMean, FilterMedian, "kalman"},
     maw \in {DurZero, Seconds(60)},
     at \in {0, 10},
     tt \in {DurZero, Milliseconds(50)}}

InitValidate ==
  /\ cfgPath = Path
  /\ targets = <<>>
  /\ iface = ""
  /\ monitoringPort = 0
  /\ interval = DurZero
  /\ dscp = 0
  /\ dns = NoResolver
  /\ cfg \in ValidateConfigs
  /\ file = [status |-> "ok", doc |-> DocOf(cfg)]
  /\ loaded = cfg
  /\ pc = "validate"
  /\ ret = NoRet
  /\ warnings = <<>>
  /\ lookups = <<>>
  /\ reads = 1
  /\ validated = 0
  /\ call = 1
  /\ prev = NoRet

SpecValidate == InitValidate /\ [][ValidateStage]_vars

(***************************************************************************)
(* Properties.  The checks of the Validator are restated here from their   *)
(* description, independently of Validate.                                 *)
(***************************************************************************)
\* d > 0, a < b on durations
Positive(d) == d.s > 0 \/ (d.s = 0 /\ d.ns > 0)
StrictlyBefore(a, b) == a.s < b.s \/ (a.s = b.s /\ a.ns < b.ns)
\* d - 1ns
MinusOneNs(d) ==
  IF d.ns = 0 THEN [s |-> d.s - 1, ns |-> NsPerSecond - 1] ELSE [s |-> d.s, ns |-> d.ns - 1]

\* every check but those on the exchange timeout, the servers and the interface
OtherChecksHold(c) ==
  /\ Positive(c.Interval)
  /\ c.AttemptsTXTS > 0
  /\ Positive(c.TimeoutTXTS)
  /\ Positive(c.MetricsAggregationWindow)
  /\ c.MonitoringPort >= 0
  /\ c.DSCP >= 0
  /\ c.Timestamping \in {HWTIMESTAMP, SWTIMESTAMP}
  /\ c.Measurement.PathDelayFilterLength >= 0
  /\ c.Measurement.PathDelayFilter \in {FilterNone, FilterMean, FilterMedian}

ExchangeTimeoutHolds(c) ==
  Positive(c.ExchangeTimeout) /\ StrictlyBefore(c.ExchangeTimeout, c.Interval)

SatisfiesEveryCheck(c) ==
  /\ OtherChecksHold(c)
  /\ ExchangeTimeoutHolds(c)
  /\ DOMAIN c.Servers # {}
  /\ c.Iface # ""

\* PrepareConfig has returned / has returned a Config
Returned == pc = "done"
Succeeded == pc = "done" /\ ret.err = NoErr

C5_Original ==
  (Returned /\ Positive(cfg.Interval) /\ OtherChecksHold(cfg)
     /\ DOMAIN cfg.Servers # {} /\ cfg.Iface # "") =>
    /\ cfg.ExchangeTimeout = cfg.Interval => ret.err # NoErr
    /\ cfg.ExchangeTimeout = MinusOneNs(cfg.Interval) => ret.err = NoErr

\* C5 amended: validation fails with ExchangeTimeout = I for every I > 0, and
\* passes with ExchangeTimeout = I - 1ns for every I > 1ns (with I = 1ns the
\* exchange timeout is 0, which the strict lower bound rejects).
C5_Boundary ==
  (Returned /\ Positive(cfg.Interval) /\ OtherChecksHold(cfg)
     /\ DOMAIN cfg.Servers # {} /\ cfg.Iface # "") =>
    /\ cfg.ExchangeTimeout = cfg.Interval =>
         ret.err = <<"validating config",
                     "exchangetimeout must be greater than zero but less than interval">>
    /\ (cfg.ExchangeTimeout = MinusOneNs(cfg.Interval)
          /\ StrictlyBefore(Nanoseconds(1), cfg.Interval)) => ret.err = NoErr
    /\ (cfg.ExchangeTimeout = MinusOneNs(cfg.Interval) /\ cfg.Interval = Nanoseconds(1)) =>
         ret.err # NoErr

\* an interval of 1s with an exchange timeout of 999999999ns was accepted
C5_Witness ==
  /\ Succeeded
  /\ cfg.Interval = Seconds(1)
  /\ cfg.ExchangeTimeout = Duration(0, NsPerSecond - 1)

\* the checks in the order of the Validator: whether c violates each, and
\* the reason reported for each
CheckViolated(c) ==
  << ~Positive(c.Interval),
     c.AttemptsTXTS <= 0,
     ~Positive(c.TimeoutTXTS),
     ~Positive(c.MetricsAggregationWindow),
     c.MonitoringPort < 0,
     c.DSCP < 0,
     ~ExchangeTimeoutHolds(c),
     DOMAIN c.Servers = {},
     c.Timestamping \notin {HWTIMESTAMP, SWTIMESTAMP},
     c.Iface = "",
     c.Measurement.PathDelayFilterLength < 0,
     c.Measurement.PathDelayFilter \notin {FilterNone, FilterMean, FilterMedian} >>

CheckReason ==
  << <<"interval must be greater than zero">>,
     <<"attemptstxts must be greater than zero">>,
     <<"timeouttxts must be greater than zero">>,
     <<"metricsaggregationwindow must be greater than zero">>,
     <<"monitoringport must be 0 or positive">>,
     <<"dscp must be 0 or positive">>,
     <<"exchangetimeout must be greater than zero but less than interval">>,
     <<"at least one server must be specified">>,
     <<"only \"HWTIMESTAMP\" and \"SWTIMESTAMP\" timestamping is supported">>,
     <<"iface must be specified">>,
     <<"invalid measurement config", "path_delay_filter_length must be 0 or positive">>,
     <<"invalid measurement config",
       "path_delay_filter must be either \"\", \"mean\" or \"median\"">> >>

ViolatedChecks(c) == LET v == CheckViolated(c) IN {n \in 1..Len(CheckReason) : v[n]}
\* the earliest violated check of a non-empty set of them
First(V) == CHOOSE n \in V : \A m \in V : n <= m

\* C6: the validation step leaves the Config as it was; it succeeds, and
\* the Config is returned, exactly when no check is violated; otherwise it
\* reports the reason of the earliest violated check in the fixed order
\* (filter length before filter kind), and the reasons of different checks
\* differ.
C6_FailFast ==
  [][pc = "validate" =>
       LET V == ViolatedChecks(cfg) IN
       /\ cfg' = cfg
       /\ (V = {}) <=> (ret'.err = NoErr)
       /\ V = {} => ret'.cfg = cfg
       /\ V # {} =>
            LET first == First(V) IN
            /\ ret'.cfg = Nil
            /\ ret'.err = Wrap("validating config", CheckReason[first])
            /\ \A n \in 1..Len(CheckReason) :
                 n # first => Tail(ret'.err) # CheckReason[n]]_vars

\* the defaults, with neither server nor interface, were rejected for having
\* no servers
C6_Witness ==
  /\ Returned
  /\ cfg = DefaultConfig
  /\ Cardinality(ViolatedChecks(cfg)) = 2
  /\ ret.err = <<"validating config", "at least one server must be specified">>

\* the address the Address Normalizer gives for an identifier: a literal
\* address as it is, a name whose lookup fails or is empty as it is,
\* otherwise the first address of the answer
Normalized(t) ==
  IF t \in IPLiterals THEN t
  ELSE IF dns[t].err # NoErr \/ dns[t].names = <<>> THEN t
  ELSE Head(dns[t].names)
NotLiteral(t) == t \notin IPLiterals

TargetAddresses == {Normalized(targets[n]) : n \in 1..Len(targets)}
LoadedAddresses == {Normalized(k) : k \in DOMAIN loaded.Servers}
\* the file, if any, was read
Loaded == loaded # Nil
ServersResolved == Loaded /\ pc \in {"overrides", "validate", "done"}

\* the inputs are well formed: the values after the file satisfy the checks,
\* the CLI scalars are zero (not given) or in range, and a server and an
\* interface are given by the file or the CLI
WellFormedInputs ==
  /\ Loaded
  /\ OtherChecksHold(loaded)
  /\ ExchangeTimeoutHolds(loaded)
  /\ monitoringPort >= 0
  /\ dscp >= 0
  /\ interval = DurZero \/ Positive(interval)
  /\ Len(targets) > 0 \/ DOMAIN loaded.Servers # {}
  /\ iface # "" \/ loaded.Iface # ""

\* C2 as stated: with well-formed inputs (any positive interval, any
\* non-negative port and DSCP), a server and an interface, PrepareConfig
\* returns no validation error.
C2_Original == (Returned /\ WellFormedInputs) => ret.err = NoErr

\* C2 amended: ... provided the CLI interval, when given, is greater than
\* the exchange timeout held after the file (100ms by default); and the
\* scenario (no file, one literal target, iface eth0, no other override)
\* succeeds with the default interval and exchange timeout.
C2_WellFormedSucceeds ==
  /\ (Returned /\ WellFormedInputs
        /\ (interval = DurZero \/ StrictlyBefore(loaded.ExchangeTimeout, interval)))
       => ret.err = NoErr
  /\ (Returned /\ cfgPath = "" /\ targets = <<"192.0.2.1">> /\ iface = "eth0"
        /\ monitoringPort = 0 /\ interval = DurZero /\ dscp = 0)
       => /\ ret.err = NoErr
          /\ ret.cfg.Interval = Seconds(1)
          /\ ret.cfg.ExchangeTimeout = Milliseconds(100)
          /\ ret.cfg.Iface = "eth0"
          /\ ret.cfg.Servers = [a \in {"192.0.2.1"} |-> 0]

\* the defaults with one target, an interface and every scalar overridden
\* by a well-formed value were accepted
C2_Witness ==
  /\ Succeeded
  /\ cfgPath = ""
  /\ Len(targets) = 1
  /\ interval = Seconds(2)
  /\ monitoringPort = 8888
  /\ dscp = 35

\* the resolved value R of a field with value F after the file and CLI value C
Precedence(C, zero, F, R) ==
  /\ (C # zero /\ C # F) => R = C
  /\ (C = zero \/ C = F) => R = F

\* C3: whenever PrepareConfig succeeds, each of interface, monitoring port,
\* interval and DSCP is the CLI value when that is non-zero and differs from
\* the value after the file, and the value after the file otherwise.
C3_Precedence ==
  Succeeded =>
    /\ Precedence(iface, "", loaded.Iface, ret.cfg.Iface)
    /\ Precedence(monitoringPort, 0, loaded.MonitoringPort, ret.cfg.MonitoringPort)
    /\ Precedence(interval, DurZero, loaded.Interval, ret.cfg.Interval)
    /\ Precedence(dscp, 0, loaded.DSCP, ret.cfg.DSCP)

\* a DSCP of 35 from the file survived a CLI DSCP of 0
C3_Witness ==
  /\ Succeeded
  /\ dscp = 0
  /\ loaded.DSCP = 35
  /\ ret.cfg.DSCP = 35

\* the last zero-based position of the target list that normalizes to a
LastPosition(a) ==
  CHOOSE q \in 0..(Len(targets) - 1) :
    /\ Normalized(targets[q + 1]) = a
    /\ \A r \in (q + 1)..(Len(targets) - 1) : Normalized(targets[r + 1]) # a

\* C4 as stated: with CLI targets the resolved servers are exactly the
\* normalized targets, each target with its own position for priority.
C4_Original ==
  (Succeeded /\ Len(targets) > 0) =>
    /\ DOMAIN ret.cfg.Servers = TargetAddresses
    /\ \A n \in 1..Len(targets) : ret.cfg.Servers[Normalized(targets[n])] = n - 1

\* C4 amended: with CLI targets the resolved servers hold no entry of the
\* file or the defaults; their keys are exactly the normalized targets, and
\* each address has the position of the last target that normalizes to it
\* (so each target has its own position when the normalized targets are
\* pairwise different).
C4_LastPositionWins ==
  (Succeeded /\ Len(targets) > 0) =>
    /\ DOMAIN ret.cfg.Servers = TargetAddresses
    /\ \A a \in TargetAddresses : ret.cfg.Servers[a] = LastPosition(a)
    /\ Cardinality(TargetAddresses) = Len(targets) =>
         \A n \in 1..Len(targets) : ret.cfg.Servers[Normalized(targets[n])] = n - 1

\* two different targets that normalize to one address replaced the servers
\* of a file
C4_Witness ==
  /\ Succeeded
  /\ Len(targets) = 2
  /\ targets[1] # targets[2]
  /\ Normalized(targets[1]) = Normalized(targets[2])
  /\ DOMAIN loaded.Servers # {}
  /\ ret.cfg.Servers = [a \in {Normalized(targets[1])} |-> 1]

\* C7 as stated: without CLI targets every loaded entry (k, p) is resolved
\* to Normalized(k) with priority p, nothing else is, and the number of
\* entries is unchanged.
C7_Original ==
  (Succeeded /\ Len(targets) = 0) =>
    /\ DOMAIN ret.cfg.Servers = LoadedAddresses
    /\ \A k \in DOMAIN loaded.Servers : ret.cfg.Servers[Normalized(k)] = loaded.Servers[k]
    /\ Cardinality(DOMAIN ret.cfg.Servers) = Cardinality(DOMAIN loaded.Servers)

\* C7 amended: without CLI targets the keys of the resolved servers are
\* exactly the normalized loaded keys, and each address has the priority of
\* one of the loaded keys that normalize to it; when no two loaded keys
\* normalize to the same address every entry keeps its priority and the
\* number of entries is unchanged.
C7_KeysNormalized ==
  (Succeeded /\ Len(targets) = 0) =>
    /\ DOMAIN ret.cfg.Servers = LoadedAddresses
    /\ \A a \in LoadedAddresses :
         \E k \in DOMAIN loaded.Servers :
           Normalized(k) = a /\ ret.cfg.Servers[a] = loaded.Servers[k]
    /\ Cardinality(LoadedAddresses) = Cardinality(DOMAIN loaded.Servers) =>
         /\ \A k \in DOMAIN loaded.Servers :
              ret.cfg.Servers[Normalized(k)] = loaded.Servers[k]
         /\ Cardinality(DOMAIN ret.cfg.Servers) = Cardinality(DOMAIN loaded.Servers)

\* two loaded keys of different priorities were resolved to one address
C7_Witness ==
  /\ Succeeded
  /\ Len(targets) = 0
  /\ \E k1, k2 \in DOMAIN loaded.Servers :
       /\ k1 # k2
       /\ Normalized(k1) = Normalized(k2)
       /\ loaded.Servers[k1] # loaded.Servers[k2]

\* C8: a literal address is used as it is and never looked up; every other
\* identifier is looked up once, and is used as it is when the lookup fails
\* or is empty and replaced by the first address otherwise; and with CLI
\* targets and otherwise valid settings PrepareConfig succeeds whatever the
\* resolver answers.
C8_BestEffort ==
  /\ (ServersResolved /\ call = 1 /\ Len(targets) > 0) =>
       /\ lookups = SelectSeq(targets, NotLiteral)
       /\ DOMAIN cfg.Servers = TargetAddresses
  /\ (ServersResolved /\ call = 1 /\ Len(targets) = 0) =>
       /\ {lookups[n] : n \in 1..Len(lookups)} = {k \in DOMAIN loaded.Servers : NotLiteral(k)}
       /\ Len(lookups) = Cardinality({k \in DOMAIN loaded.Servers : NotLiteral(k)})
       /\ DOMAIN cfg.Servers = LoadedAddresses
  /\ (Returned /\ Loaded /\ Len(targets) > 0 /\ OtherChecksHold(cfg)
        /\ ExchangeTimeoutHolds(cfg) /\ cfg.Iface # "") => ret.err = NoErr

\* a target whose lookup failed was kept as given, and the call succeeded
C8_Witness ==
  /\ Succeeded
  /\ targets = <<"192.0.2.1", "host-a">>
  /\ dns["host-a"].err # NoErr
  /\ lookups = <<"host-a">>
  /\ ret.cfg.Servers = ("192.0.2.1" :> 0) @@ ("host-a" :> 1)

FileFails == cfgPath # "" /\ file.status # "ok"

\* C9: when the file of a non-empty path cannot be read or parsed,
\* PrepareConfig returns no Config and an error that names the path, whatever
\* the CLI arguments, and makes no lookup, no warning and no validation;
\* with an empty path no file is read and the defaults are the base.
C9_FileFailureAborts ==
  /\ FileFails =>
       /\ pc \in {"start", "done"}
       /\ lookups = <<>>
       /\ warnings = <<>>
       /\ validated = 0
       /\ Returned =>
            /\ ret.cfg = Nil
            /\ Len(ret.err) = 2
            /\ Head(ret.err) = "reading config from \"" \o cfgPath \o "\""
  /\ cfgPath = "" =>
       /\ reads = 0
       /\ pc # "start" => loaded = DefaultConfig
  /\ (cfgPath # "" /\ pc # "start") => reads = call

\* a file that does not parse failed a call whose CLI values would have been
\* valid with the defaults
C9_Witness ==
  /\ Returned
  /\ cfgPath # ""
  /\ file.status = "unparsable"
  /\ targets = <<"192.0.2.1">>
  /\ iface = "eth0"
  /\ ret.err # NoErr

\* C10: two calls of PrepareConfig with the same arguments, the same file and
\* the same resolver answers return the same outcome.
C10_Deterministic == (call = 2 /\ Returned) => ret = prev

====
